---- MODULE Spec2Model ----
(***************************************************************************)
(* Model of mfanalysis/mfspectrum.py: MultifractalSpectrum, the estimator  *)
(* of the multifractal spectrum (Dq, hq) from a multiresolution quantity.  *)
(*                                                                         *)
(* Numbers are exact.  A positive rational is kept as its prime            *)
(* factorisation (a function prime -> non-zero exponent), so that its      *)
(* log2 is the linear form  SUM e_p * log2(p).  A real is such a linear    *)
(* form with rational coefficients over the numbers log2(p), p prime,      *)
(* which are linearly independent over the rationals (log2(2) = 1 is the   *)
(* rational unit): two reals are equal iff their normal forms are.  The    *)
(* IEEE special values the code can produce (a zero coefficient raised to  *)
(* a negative power, log2(0), 0/0, 0*inf) are kept as kinds of value.      *)
(* Rounding of floating point is not modelled.                             *)
(***************************************************************************)
EXTENDS Integers, Sequences, FiniteSets, TLC

VARIABLES pc, err, mrq, selfj, q, wt_param, R_q_j, U, V, x, wj, Dq, hq, calls

vars == <<pc, err, mrq, selfj, q, wt_param, R_q_j, U, V, x, wj, Dq, hq, calls>>

(* ------------------------------ bounds -------------------------------- *)
MaxScales == 3

(* ---------------------------- integers -------------------------------- *)
Abs(n) == IF n < 0 THEN -n ELSE n

Min2(a, b) == IF a < b THEN a ELSE b

Max2(a, b) == IF a < b THEN b ELSE a

MinOf(S) == CHOOSE m \in S : \A o \in S : m <= o

RECURSIVE GCD(_, _)
GCD(a, b) == IF b = 0 THEN a ELSE GCD(b, a % b)

RECURSIVE GCDAll(_)
GCDAll(S) ==
  IF S = {} THEN 0
  ELSE LET a == CHOOSE r \in S : TRUE IN GCD(a, GCDAll(S \ {a}))

RECURSIVE Pow(_, _)
Pow(b, e) == IF e = 0 THEN 1 ELSE b * Pow(b, e - 1)

IsPrime(p) == p > 1 /\ \A d \in 2..(p - 1) : p % d # 0

PrimeDivisors(n) == {p \in 2..n : n % p = 0 /\ IsPrime(p)}

RECURSIVE Exponent(_, _)
Exponent(n, p) == IF n % p = 0 THEN 1 + Exponent(n \div p, p) ELSE 0

RECURSIVE SumInts(_)
SumInts(s) == IF s = <<>> THEN 0 ELSE Head(s) + SumInts(Tail(s))

(* ------------- positive rationals as prime factorisations ------------- *)
EmptyPF == [p \in {} |-> 0]

Sparse(f) == [p \in {r \in DOMAIN f : f[r] # 0} |-> f[p]]

At(f, p) == IF p \in DOMAIN f THEN f[p] ELSE 0

Factor(n) == [p \in PrimeDivisors(n) |-> Exponent(n, p)]

PFMul(a, b) == Sparse([p \in DOMAIN a \cup DOMAIN b |-> At(a, p) + At(b, p)])

PFDiv(a, b) == Sparse([p \in DOMAIN a \cup DOMAIN b |-> At(a, p) - At(b, p)])

PFPow(a, k) == Sparse([p \in DOMAIN a |-> a[p] * k])

RECURSIVE PFProd(_, _)
PFProd(a, S) ==
  IF S = {} THEN 1
  ELSE LET p == CHOOSE r \in S : TRUE
       IN Pow(p, Abs(a[p])) * PFProd(a, S \ {p})

PFNum(a) == PFProd(a, {p \in DOMAIN a : a[p] > 0})

PFDen(a) == PFProd(a, {p \in DOMAIN a : a[p] < 0})

(* --------- reals: rational linear forms over log2 of the primes ------- *)
Fin(n, d) ==
  LET f == Sparse(n)
      g == GCDAll({Abs(f[p]) : p \in DOMAIN f} \cup {d})
  IN [k |-> "fin", n |-> [p \in DOMAIN f |-> f[p] \div g], d |-> d \div g]

NaN == [k |-> "nan", n |-> EmptyPF, d |-> 1]

NegInf == [k |-> "ninf", n |-> EmptyPF, d |-> 1]

RInt(i) == Fin([p \in {2} |-> i], 1)

RZero == RInt(0)

RAdd(a, b) ==
  IF a.k = "nan" \/ b.k = "nan" THEN NaN
  ELSE IF a.k = "ninf" \/ b.k = "ninf" THEN NegInf
  ELSE Fin([p \in DOMAIN a.n \cup DOMAIN b.n |->
              At(a.n, p) * b.d + At(b.n, p) * a.d], a.d * b.d)

\* (num / den) * r for a finite r, den > 0
RScale(num, den, r) ==
  LET g == GCD(Abs(num), r.d)
      h == GCDAll({Abs(r.n[p]) : p \in DOMAIN r.n} \cup {den})
  IN Fin([p \in DOMAIN r.n |-> (r.n[p] \div h) * (num \div Max2(g, 1))],
         (r.d \div Max2(g, 1)) * (den \div h))

RECURSIVE RSum(_)
RSum(s) == IF s = <<>> THEN RZero ELSE RAdd(Head(s), RSum(Tail(s)))

Log2PF(a) == Fin(a, 1)

(* ------------------------- coefficients (inputs) ---------------------- *)
\* the real number  sgn * num / den  (num >= 0, den > 0); zero when num = 0
Coef(sgn, num, den) ==
  IF num = 0 THEN [z |-> TRUE, s |-> 1, pf |-> EmptyPF]
  ELSE [z |-> FALSE, s |-> sgn, pf |-> PFDiv(Factor(num), Factor(den))]

\* c * 2^e for an integer c > 0 and an integer e
CoefPow2(c, e) ==
  [z |-> FALSE, s |-> 1, pf |-> PFMul(Factor(c), Sparse([p \in {2} |-> e]))]

(* ----------------- numpy element-wise primitives ---------------------- *)
\* np.abs of one coefficient: a magnitude
NpAbs(c) == [z |-> c.z, pf |-> c.pf]

\* mutant of NpPower: 0^0 taken as 0
NpPowerZeroBase(m, qq) ==
  IF m.z
  THEN IF qq >= 0 THEN [t |-> "zero", pf |-> EmptyPF]
       ELSE [t |-> "inf", pf |-> EmptyPF]
  ELSE [t |-> "pos", pf |-> PFPow(m.pf, qq)]

\* np.power(m, qq) of one magnitude: 0^0 = 1, 0^q = 0 (q > 0), 0^q = inf (q < 0)
NpPower(m, qq) ==
  IF m.z
  THEN IF qq = 0 THEN [t |-> "pos", pf |-> EmptyPF]
       ELSE IF qq > 0 THEN [t |-> "zero", pf |-> EmptyPF]
       ELSE [t |-> "inf", pf |-> EmptyPF]
  ELSE [t |-> "pos", pf |-> PFPow(m.pf, qq)]

\* temp.sum(): inf if a term is inf, 0 if all are 0, else the exact sum, taken
\* after the common factor of the terms is set aside
NpSum(temp) ==
  LET I == DOMAIN temp
      P == {i \in I : temp[i].t = "pos"}
  IN IF \E i \in I : temp[i].t = "inf" THEN [t |-> "inf", pf |-> EmptyPF]
     ELSE IF P = {} THEN [t |-> "zero", pf |-> EmptyPF]
     ELSE LET primes == UNION {DOMAIN temp[i].pf : i \in P}
              c == Sparse([p \in primes |-> MinOf({At(temp[i].pf, p) : i \in P})])
              t == [i \in I |-> IF i \in P THEN PFNum(PFDiv(temp[i].pf, c)) ELSE 0]
          IN [t |-> "pos", pf |-> PFMul(c, Factor(SumInts(t)))]

\* a / s of IEEE arithmetic for a in {0, positive, inf} and s = temp.sum();
\* s = 0 only when every term is 0, so positive / 0 does not arise
NpDivide(a, s) ==
  IF a.t = "inf" THEN [t |-> "nan", pf |-> EmptyPF]
  ELSE IF a.t = "zero"
       THEN IF s.t = "zero" THEN [t |-> "nan", pf |-> EmptyPF]
            ELSE [t |-> "zero", pf |-> EmptyPF]
  ELSE IF s.t = "inf" THEN [t |-> "zero", pf |-> EmptyPF]
  ELSE [t |-> "pos", pf |-> PFDiv(a.pf, s.pf)]

\* np.log2 of a magnitude: log2(0) = -inf
Log2Mag(m) == IF m.z THEN NegInf ELSE Log2PF(m.pf)

\* np.log2 of an entry of R
Log2R(r) ==
  IF r.t = "nan" THEN NaN
  ELSE IF r.t = "zero" THEN NegInf
  ELSE Log2PF(r.pf)

\* r * v of IEEE arithmetic for an entry r of R and a real v: 0 * -inf = nan
NpTimes(r, v) ==
  IF r.t = "nan" \/ v.k = "nan" THEN NaN
  ELSE IF r.t = "zero" THEN (IF v.k = "ninf" THEN NaN ELSE RZero)
  ELSE IF v.k = "ninf" THEN NegInf
  ELSE RScale(PFNum(r.pf), PFDen(r.pf), v)

(* ------------- the statistics of one scale and one order -------------- *)
MrqValuesJ(m, j) == [i \in DOMAIN m.values[j] |-> NpAbs(m.values[j][i])]

Temp(m, j, qq) == [i \in DOMAIN m.values[j] |-> NpPower(MrqValuesJ(m, j)[i], qq)]

RqjOf(m, j, qq) ==
  LET temp == Temp(m, j, qq)
      s == NpSum(temp)
  IN [i \in DOMAIN temp |-> NpDivide(temp[i], s)]

VStat(m, j, qq) ==
  LET R == RqjOf(m, j, qq)
  IN RSum([i \in DOMAIN R |-> NpTimes(R[i], Log2Mag(MrqValuesJ(m, j)[i]))])

\* mutant of UStat: the entropy term subtracted instead of added
UStatMinus(m, j, qq) ==
  LET R == RqjOf(m, j, qq)
  IN RAdd(Log2PF(Factor(m.nj[j])),
          RScale(-1, 1, RSum([i \in DOMAIN R |-> NpTimes(R[i], Log2R(R[i]))])))

UStat(m, j, qq) ==
  LET R == RqjOf(m, j, qq)
  IN RAdd(Log2PF(Factor(m.nj[j])),
          RSum([i \in DOMAIN R |-> NpTimes(R[i], Log2R(R[i]))]))

(* -------------------- Utils().linear_regression ----------------------- *)
\* The weighted least-squares fit of y against x with weights w.  It fails on
\* an x with fewer than two distinct points, and on sequences of different
\* lengths; values that are not finite have no minimiser and give nan.
LinearRegression(xs, ys, ws) ==
  LET n == Len(xs)
  IN IF Cardinality({xs[k] : k \in 1..n}) < 2
     THEN [err |-> "DegenerateRegressionError", slope |-> NaN, intercept |-> NaN]
     ELSE IF Len(ys) # n \/ Len(ws) # n
     THEN [err |-> "ValueError", slope |-> NaN, intercept |-> NaN]
     ELSE IF \E k \in 1..n : ys[k].k # "fin"
     THEN [err |-> "", slope |-> NaN, intercept |-> NaN]
     ELSE
       LET Sw == SumInts([k \in 1..n |-> ws[k]])
           Swx == SumInts([k \in 1..n |-> ws[k] * xs[k]])
           Swxx == SumInts([k \in 1..n |-> ws[k] * xs[k] * xs[k]])
           D == Sw * Swxx - Swx * Swx
           slope == RSum([k \in 1..n |->
                       RScale(ws[k] * (Sw * xs[k] - Swx), D, ys[k])])
           Swy == RSum([k \in 1..n |-> RScale(ws[k], 1, ys[k])])
       IN [err |-> "", slope |-> slope,
           intercept |-> RAdd(RScale(1, Sw, Swy), RScale(-Swx, Sw, slope))]

(* ------------------------- numpy indexing ----------------------------- *)
\* the rows (counted from 1) that the slice [start:stop] selects among n rows
PySliceRows(n, start, stop) ==
  LET s == IF start < 0 THEN Max2(start + n, 0) ELSE Min2(start, n)
      e == IF stop < 0 THEN Max2(stop + n, 0) ELSE Min2(stop, n)
  IN [k \in 1..Max2(e - s, 0) |-> s + k]

\* mutant of SliceColumn: the slice taken without the offset, M[j1:j2, ind_q]
SliceColumnNoOffset(M, j1, j2, col) ==
  LET rows == PySliceRows(Len(M), j1, j2)
  IN [k \in 1..Len(rows) |-> M[rows[k]][col]]

\* M[(j1-1):j2, ind_q] for a column ind_q counted from 1
SliceColumn(M, j1, j2, col) ==
  LET rows == PySliceRows(Len(M), j1 - 1, j2)
  IN [k \in 1..Len(rows) |-> M[rows[k]][col]]

\* mutant of Arange: one scale too many, np.arange(j1, j2+2)
ArangeLong(j1, j2) == [k \in 1..Max2(j2 - j1 + 2, 0) |-> j1 + k - 1]

\* np.arange(j1, j2+1)
Arange(j1, j2) == [k \in 1..Max2(j2 - j1 + 1, 0) |-> j1 + k - 1]

\* mutant of Zeros1: one entry too many
Zeros1Long(n) == [c \in 1..(n + 1) |-> RZero]

\* np.zeros((rows, cols)) and np.zeros(n), np.ones(n)
Zeros2(rows, cols) == [r \in 1..rows |-> [c \in 1..cols |-> RZero]]

Zeros1(n) == [c \in 1..n |-> RZero]

Ones(n) == [k \in 1..n |-> 1]

\* np.array(list(mrq.values)): the scales of the MRQ, in the order of its keys
ScalesOf(m) ==
  LET lo == MinOf(DOMAIN m.values)
  IN [i \in 1..Cardinality(DOMAIN m.values) |-> lo + i - 1]

\* mutant of get_nj_interv: scales the MRQ does not have are skipped
get_nj_interv_skip(m, j1, j2) ==
  LET present == {j \in j1..j2 : j \in DOMAIN m.nj}
  IN [err |-> "",
      v |-> [k \in 1..Cardinality(present) |->
               m.nj[CHOOSE j \in present :
                      Cardinality({i \in present : i < j}) = k - 1]]]

\* mutant of get_nj_interv: the scale is appended instead of its count
get_nj_interv_scales(m, j1, j2) ==
  IF \A j \in j1..j2 : j \in DOMAIN m.nj
  THEN [err |-> "", v |-> [k \in 1..Max2(j2 - j1 + 1, 0) |-> j1 + k - 1]]
  ELSE [err |-> "KeyError", v |-> <<>>]

\* get_nj_interv: one lookup of mrq.nj per scale of j1..j2, in order; the
\* lookup of a scale the MRQ does not have raises KeyError
get_nj_interv(m, j1, j2) ==
  IF \A j \in j1..j2 : j \in DOMAIN m.nj
  THEN [err |-> "", v |-> [k \in 1..Max2(j2 - j1 + 1, 0) |-> m.nj[j1 + k - 1]]]
  ELSE [err |-> "KeyError", v |-> <<>>]

\* mutant of Weights: the test of wtype inverted
WeightsSwapped(m, j1, j2, wtype) ==
  IF wtype # 1 THEN get_nj_interv(m, j1, j2)
  ELSE [err |-> "", v |-> Ones(Len(Arange(j1, j2)))]

\* the weights of the regressions: nj of each scale if wtype is 1, else ones
Weights(m, j1, j2, wtype) ==
  IF wtype = 1 THEN get_nj_interv(m, j1, j2)
  ELSE [err |-> "", v |-> Ones(Len(Arange(j1, j2)))]

(* ------------------------------ inputs -------------------------------- *)
\* the coefficient arrays a scale can hold: a constant array, a signed array
\* with a fraction, an array with a zero
CoefVectors ==
  { <<Coef(1, 2, 1), Coef(1, 2, 1)>>,
    <<Coef(-1, 1, 2), Coef(1, 3, 1)>>,
    <<Coef(1, 0, 1), Coef(-1, 1, 1), Coef(1, 4, 1)>> }

\* the smallest scale of an MRQ
FirstScales == {1, 2}

\* the sequences of moment orders
QSeqs == {<<>>, <<0>>, <<2>>, <<-1, 0>>, <<0, 2>>}

\* an MRQ whose scales lo, lo+1, ... hold the arrays vs[1], vs[2], ...;
\* nj[j] is the number of coefficients of scale j
MkMRQ(lo, vs) ==
  [nj |-> [j \in lo..(lo + Len(vs) - 1) |-> Len(vs[j - lo + 1])],
   values |-> [j \in lo..(lo + Len(vs) - 1) |-> vs[j - lo + 1]]]

MRQs ==
  {MkMRQ(lo, vs) : lo \in FirstScales,
                   vs \in UNION {[1..n -> CoefVectors] : n \in 1..MaxScales}}

GeneralInputs ==
  {[mrq |-> m, q |-> qs, j1 |-> a, j2 |-> b, wtype |-> w] :
     m \in MRQs, qs \in QSeqs,
     a \in 0..(MaxScales + 1), b \in 0..(MaxScales + 1), w \in {0, 1}}

\* the power-law MRQ: scales 1..5, 4 coefficients at every scale, each equal
\* to c * 2^(-alpha*j) at scale j
PowerLawMRQ(alpha, c) ==
  MkMRQ(1, [j \in 1..5 |-> [i \in 1..4 |-> CoefPow2(c, -(alpha * j))]])

PowerLawAlphas == (-2)..2

PowerLawConstants == {1, 3}

PowerLawInputs ==
  {[mrq |-> PowerLawMRQ(al, c), q |-> <<0, 2>>, j1 |-> 1, j2 |-> 5, wtype |-> w] :
     al \in PowerLawAlphas, c \in PowerLawConstants, w \in {0, 1}}

Inputs == GeneralInputs \cup PowerLawInputs

(* --------------------------- the estimator ---------------------------- *)
\* Dq and hq before _compute has stored them
None == <<>>

NoMRQ == [nj |-> <<>>, values |-> <<>>]

Init ==
  /\ pc = "new"
  /\ err = ""
  /\ mrq = NoMRQ
  /\ selfj = <<>>
  /\ q = <<>>
  /\ wt_param = [j1 |-> 0, j2 |-> 0, wtype |-> 0]
  /\ R_q_j = <<>>
  /\ U = <<>>
  /\ V = <<>>
  /\ x = <<>>
  /\ wj = <<>>
  /\ Dq = None
  /\ hq = None
  /\ calls = <<>>

\* __init__ up to the call of _compute
Construct(in) ==
  /\ mrq' = in.mrq
  /\ selfj' = ScalesOf(in.mrq)
  /\ q' = in.q
  /\ Dq' = None
  /\ hq' = None
  /\ wt_param' = [j1 |-> in.j1, j2 |-> in.j2, wtype |-> in.wtype]
  /\ pc' = "compute"
  /\ UNCHANGED <<err, R_q_j, U, V, x, wj, calls>>

\* the caller constructs one estimator, on any of the inputs
NewEstimator ==
  /\ pc = "new"
  /\ \E in \in Inputs : Construct(in)

\* the two loops over the scales and the orders: row ind_j of U and V is
\* filled from the scale self.j[ind_j], column ind_q from the order q[ind_q]
RMatrix(m, js, qs) ==
  [r \in 1..Len(js) |-> [c \in 1..Len(qs) |-> RqjOf(m, js[r], qs[c])]]

UMatrix(m, js, qs) ==
  [r \in 1..Len(js) |-> [c \in 1..Len(qs) |-> UStat(m, js[r], qs[c])]]

VMatrix(m, js, qs) ==
  [r \in 1..Len(js) |-> [c \in 1..Len(qs) |-> VStat(m, js[r], qs[c])]]

\* the matrices that the loops fill on each MRQ and sequence of orders of the
\* inputs, tabulated so that they are evaluated once per MRQ and sequence
Statistics ==
  [m \in {in.mrq : in \in Inputs} |->
    [qs \in {in.q : in \in Inputs} |->
       [R |-> RMatrix(m, ScalesOf(m), qs),
        U |-> UMatrix(m, ScalesOf(m), qs),
        V |-> VMatrix(m, ScalesOf(m), qs)]]]

ComputeStatistics ==
  /\ pc = "compute"
  /\ R_q_j' = Statistics[mrq][q].R
  /\ U' = Statistics[mrq][q].U
  /\ V' = Statistics[mrq][q].V
  /\ pc' = "weights"
  /\ UNCHANGED <<err, mrq, selfj, q, wt_param, x, wj, Dq, hq, calls>>

\* x and the weights
SetupRegression ==
  /\ pc = "weights"
  /\ Weights(mrq, wt_param.j1, wt_param.j2, wt_param.wtype).err = ""
  /\ x' = Arange(wt_param.j1, wt_param.j2)
  /\ wj' = Weights(mrq, wt_param.j1, wt_param.j2, wt_param.wtype).v
  /\ pc' = "regress"
  /\ UNCHANGED <<err, mrq, selfj, q, wt_param, R_q_j, U, V, Dq, hq, calls>>

\* get_nj_interv looks up a scale the MRQ does not have: KeyError
SetupRaise ==
  /\ pc = "weights"
  /\ Weights(mrq, wt_param.j1, wt_param.j2, wt_param.wtype).err # ""
  /\ x' = Arange(wt_param.j1, wt_param.j2)
  /\ err' = Weights(mrq, wt_param.j1, wt_param.j2, wt_param.wtype).err
  /\ pc' = "failed"
  /\ UNCHANGED <<mrq, selfj, q, wt_param, R_q_j, U, V, wj, Dq, hq, calls>>

\* mutant of ZOf: z sliced from U
ZOfU(col) == SliceColumn(U, wt_param.j1, wt_param.j2, col)

\* y and z of the pass ind_q = col of the regression loop
YOf(col) == SliceColumn(U, wt_param.j1, wt_param.j2, col)

ZOf(col) == SliceColumn(V, wt_param.j1, wt_param.j2, col)

\* the regressions of the pass col, and the passes that raise
Slope1(col) == LinearRegression(x, YOf(col), wj)

Slope2(col) == LinearRegression(x, ZOf(col), wj)

Raising == {c \in 1..Len(q) : Slope1(c).err # "" \/ Slope2(c).err # ""}

\* the calls of linear_regression made by the passes 1..n, in order
CallsUpTo(n) ==
  [k \in 1..(2 * n) |->
     LET col == (k + 1) \div 2
     IN [x |-> x, y |-> IF k % 2 = 1 THEN YOf(col) ELSE ZOf(col),
         wj |-> wj, col |-> col, of |-> IF k % 2 = 1 THEN "U" ELSE "V"]]

\* mutant of HqEntry: the slope of the first regression stored in hq
HqEntrySlope1(col) == LinearRegression(x, YOf(col), wj).slope

\* the entry of Dq and of hq that the pass col writes
DqEntry(col) == RAdd(RInt(1), Slope1(col).slope)

HqEntry(col) == Slope2(col).slope

\* the array zeros with the entry of each pass of the loop written into it
FilledDq(zeros) ==
  [c \in 1..Len(zeros) |-> IF c <= Len(q) THEN DqEntry(c) ELSE zeros[c]]

FilledHq(zeros) ==
  [c \in 1..Len(zeros) |-> IF c <= Len(q) THEN HqEntry(c) ELSE zeros[c]]

\* the regression loop runs to its end and the results are stored
Regress ==
  /\ pc = "regress"
  /\ Raising = {}
  /\ calls' = CallsUpTo(Len(q))
  /\ Dq' = FilledDq(Zeros1(Len(q)))
  /\ hq' = FilledHq(Zeros1(Len(q)))
  /\ pc' = "done"
  /\ UNCHANGED <<err, mrq, selfj, q, wt_param, R_q_j, U, V, x, wj>>

\* a regression raises in the pass c: the construction fails there
RegressRaise ==
  /\ pc = "regress"
  /\ Raising # {}
  /\ LET c == MinOf(Raising)
     IN /\ err' = IF Slope1(c).err # "" THEN Slope1(c).err ELSE Slope2(c).err
        /\ calls' = IF Slope1(c).err # ""
                    THEN SubSeq(CallsUpTo(c), 1, 2 * c - 1)
                    ELSE CallsUpTo(c)
  /\ pc' = "failed"
  /\ UNCHANGED <<mrq, selfj, q, wt_param, R_q_j, U, V, x, wj, Dq, hq>>

Next ==
  \/ NewEstimator
  \/ ComputeStatistics
  \/ SetupRegression
  \/ SetupRaise
  \/ Regress
  \/ RegressRaise

Spec == Init /\ [][Next]_vars

(* ============================ properties ============================== *)
J1 == wt_param.j1

J2 == wt_param.j2

Weighted == wt_param.wtype = 1

\* the scales the MRQ has
ScaleSet == DOMAIN mrq.values

Terminal == pc \in {"done", "failed"}

StatsDone == pc \in {"weights", "regress", "done", "failed"}

\* j1 > j2, or j1 or j2 is no scale of the MRQ
BadRange == J1 > J2 \/ J1 \notin ScaleSet \/ J2 \notin ScaleSet

InWindow == J1 <= J2 /\ J1 \in ScaleSet /\ J2 \in ScaleSet

\* the weighted-by-count lookup of a scale of j1..j2 that the MRQ lacks
LookupFails == Weighted /\ \E j \in J1..J2 : j \notin ScaleSet

\* R is the uniform weighting 1/n over n coefficients
Uniform(Rv, n) ==
  /\ Len(Rv) = n
  /\ \A i \in 1..n : Rv[i] = [t |-> "pos", pf |-> PFDiv(EmptyPF, Factor(n))]

\* every coefficient of every scale is the positive integer c
ConstantMRQ(c) ==
  /\ ScaleSet # {}
  /\ \A j \in ScaleSet : \A i \in DOMAIN mrq.values[j] :
       mrq.values[j][i] = Coef(1, c, 1)

ConstantsTried == 1..3

(* C1: when a construction with a non-empty q completes, hq and Dq have    *)
(* len(q) entries each, whatever the window, and entry i is the result for *)
(* q[i]: the slope of the regression of the V statistics of the order q[i] *)
(* over the rows of the window, and 1 + that slope for the U statistics.   *)
C1_ShapeAndOrder ==
  (pc = "done" /\ Len(q) > 0) =>
    /\ Len(hq) = Len(q)
    /\ Len(Dq) = Len(q)
    /\ \A i \in 1..Len(q) :
         LET rows == PySliceRows(Len(selfj), J1 - 1, J2)
             ycol == [k \in 1..Len(rows) |-> UStat(mrq, selfj[rows[k]], q[i])]
             zcol == [k \in 1..Len(rows) |-> VStat(mrq, selfj[rows[k]], q[i])]
         IN /\ hq[i] = LinearRegression(x, zcol, wj).slope
            /\ Dq[i] = RAdd(RInt(1), LinearRegression(x, ycol, wj).slope)

C1_Witness ==
  /\ pc = "done"
  /\ Len(q) = 2
  /\ q[1] # q[2]
  /\ hq[1].k = "fin" /\ hq[2].k = "fin"
  /\ hq[1] # hq[2]
  /\ Dq[1] # Dq[2]

C5_Original ==
  \A c \in ConstantsTried :
    (StatsDone /\ ConstantMRQ(c)) =>
      \A r \in 1..Len(selfj) : \A col \in 1..Len(q) :
        /\ Uniform(R_q_j[r][col], mrq.nj[selfj[r]])
        /\ V[r][col] = Log2PF(Factor(c))
        /\ U[r][col] = Log2PF(Factor(mrq.nj[selfj[r]]))

(* C5 amended: in such an MRQ, at every scale j and order q, R is uniform  *)
(* (1/nj each), V[j,q] = log2(c) and U[j,q] = 0 (the entropy term is       *)
(* -log2(nj) and cancels log2(nj)).                                        *)
C5_Amended ==
  \A c \in ConstantsTried :
    (StatsDone /\ ConstantMRQ(c)) =>
      \A r \in 1..Len(selfj) : \A col \in 1..Len(q) :
        /\ Uniform(R_q_j[r][col], mrq.nj[selfj[r]])
        /\ V[r][col] = Log2PF(Factor(c))
        /\ U[r][col] = RZero

C5_Witness ==
  /\ StatsDone
  /\ ConstantMRQ(2)
  /\ Len(selfj) >= 2
  /\ \E col \in 1..Len(q) : q[col] # 0 /\ V[1][col] = RInt(1) /\ U[1][col] = RZero

(* C6: for the order q = 0, whatever the coefficients (zeros included),    *)
(* R is uniform 1/nj and U[j, 0] = 0 at every scale j.                     *)
C6_UZeroAtQZero ==
  StatsDone =>
    \A r \in 1..Len(selfj) : \A col \in 1..Len(q) :
      q[col] = 0 =>
        /\ Uniform(R_q_j[r][col], mrq.nj[selfj[r]])
        /\ U[r][col] = RZero

C6_Witness ==
  /\ StatsDone
  /\ \E r \in 1..Len(selfj) : \E col \in 1..Len(q) :
       /\ q[col] = 0
       /\ \E i \in DOMAIN mrq.values[selfj[r]] : mrq.values[selfj[r]][i].z
       /\ mrq.nj[selfj[r]] = 3
       /\ U[r][col] = RZero
       /\ V[r][col].k = "ninf"

\* the end-to-end scenario with the exponent alpha and the constant c
PowerLawRun(al, c) ==
  /\ pc = "done"
  /\ mrq = PowerLawMRQ(al, c)
  /\ q = <<0, 2>>
  /\ J1 = 1 /\ J2 = 5
  /\ ~Weighted

(* C7 as stated: in the end-to-end scenario (scales 1..5, nj = 4, every    *)
(* magnitude of scale j equal to c * 2^(-alpha*j), q = [0, 2], window 1..5,*)
(* ordinary regression), hq[0] = alpha.                                    *)
C7_Original ==
  \A al \in PowerLawAlphas : \A c \in PowerLawConstants :
    PowerLawRun(al, c) => hq[1] = RInt(al)

(* C7 amended: in that scenario hq[0] = -alpha: V[j, 0] = log2(c) - alpha*j *)
(* falls with slope -alpha along the scales.                               *)
C7_Amended ==
  \A al \in PowerLawAlphas : \A c \in PowerLawConstants :
    PowerLawRun(al, c) => hq[1] = RInt(-al)

C7_Witness ==
  /\ PowerLawRun(2, 3)
  /\ hq[1] = RInt(-2)
  /\ V[5][1] = RAdd(Log2PF(Factor(3)), RInt(-10))

\* nj is the same at every scale of a window j1 < j2 of scales of the MRQ
NjConstantWindow ==
  /\ J1 < J2
  /\ \A j \in J1..J2 : j \in ScaleSet
  /\ \A a \in J1..J2 : \A b \in J1..J2 : mrq.nj[a] = mrq.nj[b]

\* the weights the other regression mode builds on the same MRQ and window
OtherWeights == Weights(mrq, J1, J2, 1 - wt_param.wtype).v

(* C8: with nj the same at every scale of the window j1 < j2, the          *)
(* construction ends as the one with the other wtype does: the same hq and *)
(* Dq when it completes, the same error when a regression fails.           *)
C8_SameSpectrum ==
  NjConstantWindow =>
    /\ pc = "done" =>
         \A col \in 1..Len(q) :
           /\ LinearRegression(x, YOf(col), OtherWeights).err = ""
           /\ LinearRegression(x, ZOf(col), OtherWeights).err = ""
           /\ hq[col] = LinearRegression(x, ZOf(col), OtherWeights).slope
           /\ Dq[col] = RAdd(RInt(1), LinearRegression(x, YOf(col), OtherWeights).slope)
    /\ pc = "failed" =>
         LinearRegression(x, YOf(1), OtherWeights).err = err

C8_Witness ==
  /\ pc = "done"
  /\ NjConstantWindow
  /\ Weighted
  /\ J2 - J1 >= 2
  /\ wj[1] >= 2
  /\ \E col \in 1..Len(q) : hq[col].k = "fin" /\ hq[col] # RZero /\ Dq[col] # RInt(1)

\* the call hands the regression as many values as x has scales, the k-th
\* being the statistic of the scale x[k] for the order of the call
CallOfScales(call) ==
  /\ call.x = Arange(J1, J2)
  /\ Len(call.y) = Len(call.x)
  /\ \A k \in 1..Len(call.x) :
       call.y[k] = IF call.of = "U" THEN UStat(mrq, call.x[k], q[call.col])
                   ELSE VStat(mrq, call.x[k], q[call.col])

(* C9 as stated: whatever the smallest scale of the MRQ, for j1 <= j2      *)
(* among its scales the y and z handed to each regression are as long as   *)
(* x = j1..j2 and their k-th elements are the U and V statistics of the    *)
(* scale x[k].                                                             *)
C9_Original ==
  InWindow => \A n \in 1..Len(calls) : CallOfScales(calls[n])

(* C9 amended: this holds for an MRQ whose scales are 1..n (smallest scale *)
(* 1): the row of the scale j is selected as row j-1.                      *)
C9_Amended ==
  (InWindow /\ 1 \in ScaleSet) => \A n \in 1..Len(calls) : CallOfScales(calls[n])

C9_Witness ==
  /\ pc = "done"
  /\ InWindow
  /\ 1 \in ScaleSet
  /\ J1 >= 2
  /\ J2 > J1
  /\ Len(calls) = 4
  /\ calls[1].y[1] # U[1][1]
  /\ calls[1].y[1] = U[J1][1]

(* C10: once the weights are built, wj has one entry per scale of          *)
(* x = j1..j2, wj[k] = 1 in ordinary mode and wj[k] = nj[x[k]], looked up  *)
(* by scale, in weighted-by-count mode; every regression call, for U and   *)
(* for V, gets this same wj.                                               *)
C10_Weights ==
  (pc \in {"regress", "done"} \/ (pc = "failed" /\ err # "KeyError")) =>
    /\ x = Arange(J1, J2)
    /\ Len(wj) = Len(x)
    /\ \A k \in 1..Len(x) :
         IF Weighted THEN x[k] \in DOMAIN mrq.nj /\ wj[k] = mrq.nj[x[k]]
         ELSE wj[k] = 1
    /\ \A n \in 1..Len(calls) : calls[n].wj = wj /\ calls[n].x = x
    /\ \A n \in 1..Len(calls) :
         calls[n].of = (IF n % 2 = 1 THEN "U" ELSE "V") /\ calls[n].col = (n + 1) \div 2

C10_Witness ==
  /\ pc = "done"
  /\ Weighted
  /\ Len(calls) = 4
  /\ \E k \in 1..Len(wj) : wj[k] = 2
  /\ \E k \in 1..Len(wj) : wj[k] = 3
====
